---- MODULE Spec2Model ----
(***************************************************************************)
(* Model of colossalai/inference/engine/microbatch_manager.py:             *)
(* MicroBatchDescription (Head / Body variants) and MicroBatchManager.     *)
(*                                                                         *)
(* Conventions                                                             *)
(*  - A tensor of token ids has one row (micro_batch_size = 1); a token    *)
(*    column is one integer, new_tokens is the sequence of row 0.          *)
(*  - Python's None for new_tokens is the empty sequence: a token tensor   *)
(*    always has at least one column, so the empty sequence is otherwise   *)
(*    never a value of new_tokens.                                         *)
(*  - Token ids are opaque to the manager (stored and returned, never     *)
(*    inspected): the n-th token handed to position p gets the id          *)
(*    TokenOf(p, n), distinct for distinct (p, n).                         *)
(*  - mb_description_buffer is a Python dict: a sequence of entries        *)
(*    [key, desc] kept in insertion order (dict iteration order).          *)
(*  - An operation's outcome is recorded in res: res.out is "ok" or the    *)
(*    name of the Python exception the call raises.                        *)
(***************************************************************************)
EXTENDS Integers, Sequences, FiniteSets

\* ---- bounds of the model ------------------------------------------------
MaxBuf == 2
MaxOut == 2
MaxInputLen == 2
MaxExtra == 1

\* ---- values ---------------------------------------------------------------
None == 0
InputLens == {MaxInputLen - 1, MaxInputLen}

PREFILL == "PREFILL"
GENERATE == "GENERATE"
DONE == "DONE"
COOLDOWN == "COOLDOWN"
Status == {PREFILL, GENERATE, DONE, COOLDOWN}

Errors == {"KeyError", "AssertionError", "AttributeError"}

\* inputs_dict of add_description: which keys it has, and the input length
InputsDicts ==
    [has_input_ids : BOOLEAN, has_attention_mask : BOOLEAN, len : InputLens]

VARIABLES
    stage,                  \* self.stage
    buffer_size,            \* self.buffer_size
    max_output_len,         \* self.max_output_len
    mb_description_buffer,  \* self.mb_description_buffer (insertion-ordered dict)
    idx,                    \* self.idx
    cache_manager_list,     \* per handle: does it hold resources of a round
    observed,               \* per position: Head states seen after creation and token steps
    res                     \* outcome of the last call

vars == <<stage, buffer_size, max_output_len, mb_description_buffer, idx,
          cache_manager_list, observed, res>>

Positions == 0..(buffer_size - 1)

\* ---- Python dict helpers --------------------------------------------------
DictKeys(d) == {d[i].key : i \in 1..Len(d)}

DictHas(d, k) == \E i \in 1..Len(d) : d[i].key = k

DictGet(d, k) == d[CHOOSE i \in 1..Len(d) : d[i].key = k].desc

\* mutant: the value is written to every entry (one shared description)
DictSet_shared(d, k, v) ==
    IF DictHas(d, k)
    THEN [i \in 1..Len(d) |-> [key |-> d[i].key, desc |-> v]]
    ELSE Append(d, [key |-> k, desc |-> v])

\* d[k] = v: an existing key keeps its place in the iteration order
DictSet(d, k, v) ==
    IF DictHas(d, k)
    THEN [i \in 1..Len(d) |-> IF d[i].key = k THEN [key |-> k, desc |-> v] ELSE d[i]]
    ELSE Append(d, [key |-> k, desc |-> v])

\* ---- MicroBatchDescription ------------------------------------------------
Ones(n) == [i \in 1..n |-> 1]

\* MicroBatchDescription.__init__ + HeadMicroBatchDescription.__init__
NewHead(inputs, k) ==
    [kind |-> "Head",
     mb_length |-> inputs.len,
     target_length |-> inputs.len + k,
     attn_mask |-> Ones(inputs.len),
     new_tokens |-> <<>>,
     seq_len |-> inputs.len]

\* MicroBatchDescription.__init__ + BodyMicroBatchDescription.__init__
NewBody(inputs, k) ==
    [kind |-> "Body",
     mb_length |-> inputs.len,
     target_length |-> inputs.len + k,
     attn_mask |-> <<>>,
     new_tokens |-> <<>>,
     seq_len |-> inputs.len]

Head_cur_length(d) ==
    IF d.new_tokens = <<>>
    THEN d.mb_length
    ELSE d.mb_length + Len(d.new_tokens)

Body_cur_length(d) == d.seq_len

cur_length(d) ==
    IF d.kind = "Head" THEN Head_cur_length(d) ELSE Body_cur_length(d)

\* mutant: DONE reported one step early
state_early(d) ==
    IF cur_length(d) >= d.target_length - 1 THEN DONE
    ELSE GENERATE

state(d) ==
    IF cur_length(d) = d.target_length THEN DONE
    ELSE IF cur_length(d) = d.target_length - 1 THEN COOLDOWN
    ELSE GENERATE

update_newtokens(d, new_token) ==
    IF d.new_tokens = <<>>
    THEN [d EXCEPT !.new_tokens = <<new_token>>]
    ELSE [d EXCEPT !.new_tokens = d.new_tokens \o <<new_token>>]

update_attnmask(d) == [d EXCEPT !.attn_mask = d.attn_mask \o <<1>>]

\* mutant: the mask grows on every update of an unfinished slot, token or not
Head_update_mask_always(d, new_token) ==
    LET d1 == IF new_token # None THEN update_newtokens(d, new_token) ELSE d
    IN  IF state(d1) # DONE THEN update_attnmask(d1) ELSE d1

Head_update(d, new_token) ==
    LET d1 == IF new_token # None THEN update_newtokens(d, new_token) ELSE d
    IN  IF state(d1) # DONE /\ new_token # None THEN update_attnmask(d1) ELSE d1

\* mutant: a Body description counts the tokens it is handed
Body_update_counts(d, new_token) ==
    IF new_token # None THEN [d EXCEPT !.seq_len = @ + 1] ELSE d

Body_update(d, new_token) == d

update(d, new_token) ==
    IF d.kind = "Head" THEN Head_update(d, new_token) ELSE Body_update(d, new_token)

\* ---- MicroBatchManager: queries -------------------------------------------
HasCur == DictHas(mb_description_buffer, idx)

cur_description == DictGet(mb_description_buffer, idx)

\* mutant: a description without tokens still counts as PREFILL
cur_state_untouched ==
    IF ~HasCur THEN PREFILL
    ELSE IF cur_description.new_tokens = <<>> THEN PREFILL
    ELSE state(cur_description)

cur_state == IF ~HasCur THEN PREFILL ELSE state(cur_description)

\* mutant: the loop returns on the first description, DONE or not
done_loop_first(d, i) ==
    IF i > Len(d) THEN TRUE ELSE state(d[i].desc) = DONE

RECURSIVE done_loop(_, _)
done_loop(d, i) ==
    IF i > Len(d) THEN TRUE
    ELSE IF state(d[i].desc) # DONE THEN FALSE
    ELSE done_loop(d, i + 1)

\* mutant: no guard for the empty dict
micro_batch_done_noguard(d) == done_loop(d, 1)

micro_batch_done(d) == IF Len(d) = 0 THEN FALSE ELSE done_loop(d, 1)

\* i.new_tokens.tolist(): a Body description has no new_tokens attribute and
\* None has no tolist, both raise AttributeError
RECURSIVE export_loop(_, _, _)
export_loop(d, i, acc) ==
    IF i > Len(d) THEN [out |-> "ok", tokens |-> acc]
    ELSE IF d[i].desc.kind # "Head" \/ d[i].desc.new_tokens = <<>>
         THEN [out |-> "AttributeError", tokens |-> <<>>]
    ELSE export_loop(d, i + 1, acc \o <<d[i].desc.new_tokens>>)

new_tokens_list(d) == export_loop(d, 1, <<>>)

\* ---- outcome record -------------------------------------------------------
Res(op, out) ==
    [op |-> op, out |-> out, state |-> "-", done |-> FALSE, tokens |-> <<>>,
     freed |-> <<>>, factory |-> FALSE, with_token |-> FALSE]

\* ---- MicroBatchManager.__init__ -------------------------------------------
Init ==
    /\ stage \in {0, 1}
    /\ buffer_size \in 1..MaxBuf
    /\ max_output_len \in 1..MaxOut
    /\ mb_description_buffer = <<>>
    /\ idx = 0
    /\ cache_manager_list = [p \in 0..(buffer_size - 1) |-> FALSE]
    /\ observed = [p \in 0..(buffer_size - 1) |-> <<>>]
    /\ res = Res("init", "ok")

Config == <<stage, buffer_size, max_output_len>>

\* ---- MicroBatchManager.add_description ------------------------------------
\* inputs_dict["input_ids"] raises KeyError before anything else happens
add_description_KeyError ==
    \E inputs \in InputsDicts :
        /\ ~inputs.has_input_ids
        /\ res' = Res("add_description", "KeyError")
        /\ UNCHANGED <<Config, mb_description_buffer, idx, cache_manager_list, observed>>

\* Head: the base __init__ (with init_from_batch on the cursor's handle) has
\* run when the assert on attention_mask fails; nothing is stored
add_description_AssertionError ==
    \E inputs \in InputsDicts :
        /\ stage = 0
        /\ inputs.has_input_ids /\ ~inputs.has_attention_mask
        /\ cache_manager_list' = [cache_manager_list EXCEPT ![idx] = TRUE]
        /\ res' = [Res("add_description", "AssertionError") EXCEPT !.factory = TRUE]
        /\ UNCHANGED <<Config, mb_description_buffer, idx, observed>>

add_description_ok ==
    \E inputs \in InputsDicts :
        /\ inputs.has_input_ids
        /\ stage = 0 => inputs.has_attention_mask
        /\ LET d == IF stage = 0 THEN NewHead(inputs, max_output_len)
                                 ELSE NewBody(inputs, max_output_len)
           IN  /\ mb_description_buffer' = DictSet(mb_description_buffer, idx, d)
               /\ observed' = [observed EXCEPT ![idx] =
                                 IF d.kind = "Head" THEN <<state(d)>> ELSE <<>>]
        /\ cache_manager_list' = [cache_manager_list EXCEPT ![idx] = TRUE]
        /\ res' = [Res("add_description", "ok") EXCEPT !.factory = TRUE]
        /\ UNCHANGED <<Config, idx>>

\* ---- MicroBatchManager.step -----------------------------------------------
\* the id of the token column that follows n generated tokens at position p
TokenOf(p, n) == p * (max_output_len + MaxExtra + 1) + n + 1

\* the new_token arguments of a step call at the cursor
StepTokens ==
    {None, TokenOf(idx, IF HasCur THEN Len(cur_description.new_tokens) ELSE 0)}

\* mutant: a missing description is skipped and PREFILL returned
step_skip_missing ==
    \E new_token \in StepTokens :
        /\ ~HasCur
        /\ res' = [Res("step", "ok") EXCEPT !.state = PREFILL,
                                            !.with_token = (new_token # None)]
        /\ UNCHANGED <<Config, mb_description_buffer, idx, cache_manager_list, observed>>

\* self.cur_description is None: None.update raises AttributeError
step_AttributeError ==
    \E new_token \in StepTokens :
        /\ ~HasCur
        /\ res' = [Res("step", "AttributeError") EXCEPT !.with_token = (new_token # None)]
        /\ UNCHANGED <<Config, mb_description_buffer, idx, cache_manager_list, observed>>

step_ok ==
    \E new_token \in StepTokens :
        /\ HasCur
        /\ new_token # None =>
              Len(cur_description.new_tokens) < max_output_len + MaxExtra
        /\ LET d == update(cur_description, new_token)
           IN  /\ mb_description_buffer' = DictSet(mb_description_buffer, idx, d)
               /\ observed' = IF new_token # None /\ d.kind = "Head"
                              THEN [observed EXCEPT ![idx] = Append(@, state(d))]
                              ELSE observed
               /\ res' = [Res("step", "ok") EXCEPT !.state = state(d),
                                                   !.with_token = (new_token # None)]
        /\ UNCHANGED <<Config, idx, cache_manager_list>>

\* ---- MicroBatchManager.export_new_tokens ----------------------------------
export_new_tokens ==
    LET r == new_tokens_list(mb_description_buffer)
    IN  /\ res' = [Res("export_new_tokens", r.out) EXCEPT !.tokens = r.tokens]
        /\ UNCHANGED <<Config, mb_description_buffer, idx, cache_manager_list, observed>>

\* ---- MicroBatchManager.is_micro_batch_done --------------------------------
is_micro_batch_done ==
    /\ res' = [Res("is_micro_batch_done", "ok")
                  EXCEPT !.done = micro_batch_done(mb_description_buffer)]
    /\ UNCHANGED <<Config, mb_description_buffer, idx, cache_manager_list, observed>>

\* ---- MicroBatchManager.clear ----------------------------------------------
\* mutant: only the handles in use are freed
RECURSIVE free_loop_used(_, _, _)
free_loop_used(caches, i, log) ==
    IF i >= buffer_size THEN [caches |-> caches, log |-> log]
    ELSE IF caches[i]
         THEN free_loop_used([caches EXCEPT ![i] = FALSE], i + 1, Append(log, i))
         ELSE free_loop_used(caches, i + 1, log)

RECURSIVE free_loop(_, _, _)
free_loop(caches, i, log) ==
    IF i >= buffer_size THEN [caches |-> caches, log |-> log]
    ELSE free_loop([caches EXCEPT ![i] = FALSE], i + 1, Append(log, i))

\* mutant: the cursor is rewound with the dict
clear_rewind ==
    LET r == free_loop(cache_manager_list, 0, <<>>)
    IN  /\ mb_description_buffer' = <<>>
        /\ cache_manager_list' = r.caches
        /\ observed' = [p \in Positions |-> <<>>]
        /\ res' = [Res("clear", "ok") EXCEPT !.freed = r.log]
        /\ idx' = 0
        /\ UNCHANGED Config

clear ==
    LET r == free_loop(cache_manager_list, 0, <<>>)
    IN  /\ mb_description_buffer' = <<>>
        /\ cache_manager_list' = r.caches
        /\ observed' = [p \in Positions |-> <<>>]
        /\ res' = [Res("clear", "ok") EXCEPT !.freed = r.log]
        /\ UNCHANGED <<Config, idx>>

\* ---- MicroBatchManager.next -----------------------------------------------
\* mutant: no wrap-around
next_idx_nowrap(i, n) == i + 1

\* mutant: wraps one position late
next_idx_late(i, n) == IF i + 1 > n THEN 0 ELSE i + 1

next_idx(i, n) == (i + 1) % n

next ==
    /\ idx' = next_idx(idx, buffer_size)
    /\ res' = Res("next", "ok")
    /\ UNCHANGED <<Config, mb_description_buffer, cache_manager_list, observed>>

\* ---- external: the model forward advances infer_state.seq_len -------------
infer_state_advance ==
    \E p \in Positions :
        /\ DictHas(mb_description_buffer, p)
        /\ LET d == DictGet(mb_description_buffer, p)
           IN  /\ d.kind = "Body"
               /\ d.seq_len < d.target_length + MaxExtra
               /\ mb_description_buffer' =
                     DictSet(mb_description_buffer, p, [d EXCEPT !.seq_len = @ + 1])
        /\ res' = Res("infer_state", "ok")
        /\ UNCHANGED <<Config, idx, cache_manager_list, observed>>

Next ==
    \/ add_description_KeyError
    \/ add_description_AssertionError
    \/ add_description_ok
    \/ step_AttributeError
    \/ step_ok
    \/ export_new_tokens
    \/ is_micro_batch_done
    \/ clear
    \/ next
    \/ infer_state_advance

Spec == Init /\ [][Next]_vars

\* ---- clear when free_all raises on handle j -------------------------------
\* the dict is cleared first (line 220); the loop has freed the handles
\* before j when the exception leaves clear
FreeAllError == "free_all error"

RECURSIVE free_loop_until(_, _, _, _)
free_loop_until(caches, i, j, log) ==
    IF i >= j THEN [caches |-> caches, log |-> log]
    ELSE free_loop_until([caches EXCEPT ![i] = FALSE], i + 1, j, Append(log, i))

clear_free_all_raises ==
    \E j \in Positions :
        LET r == free_loop_until(cache_manager_list, 0, j, <<>>)
        IN  /\ mb_description_buffer' = <<>>
            /\ cache_manager_list' = r.caches
            /\ observed' = [p \in Positions |-> <<>>]
            /\ res' = [Res("clear", FreeAllError) EXCEPT !.freed = r.log]
            /\ UNCHANGED <<Config, idx>>

NextFault ==
    \/ Next
    \/ clear_free_all_raises

SpecFault == Init /\ [][NextFault]_vars

\* ---- the round-robin driver of a Head ring -------------------------------
\* add_description; next for every position, then step(token);
\* is_micro_batch_done; next until the round is reported complete.
\* res.op is the driver's position in that loop.
InitDriver == Init /\ stage = 0

DriverAdd ==
    /\ res.op \in {"init", "next"}
    /\ ~HasCur
    /\ add_description_ok

DriverStep ==
    /\ res.op = "next"
    /\ HasCur
    /\ step_ok
    /\ res'.with_token

DriverCheck ==
    /\ res.op = "step"
    /\ is_micro_batch_done

DriverNext ==
    /\ \/ res.op = "add_description"
       \/ res.op = "is_micro_batch_done" /\ ~res.done
    /\ next

NextDriver ==
    \/ DriverAdd
    \/ DriverStep
    \/ DriverCheck
    \/ DriverNext

SpecDriver == InitDriver /\ [][NextDriver]_vars /\ WF_vars(NextDriver)

\* ==== properties =========================================================
Failed(r) == r.out # "ok"

HeadEntries ==
    {i \in 1..Len(mb_description_buffer) : mb_description_buffer[i].desc.kind = "Head"}

\* the description stored at position p is the same object before and after
SameSlot(p) ==
    /\ DictHas(mb_description_buffer, p)
    /\ DictHas(mb_description_buffer', p)
    /\ ~(res'.op = "add_description" /\ res'.out = "ok" /\ idx = p)

\* C1: over any sequence of calls a Head slot's current length never
\* decreases and never exceeds its target length
\* (original claim; violated by a token step on a DONE slot)
C1_LengthMonotoneBounded ==
    [][\A p \in Positions :
          /\ (DictHas(mb_description_buffer', p)
                /\ DictGet(mb_description_buffer', p).kind = "Head")
             => cur_length(DictGet(mb_description_buffer', p))
                   <= DictGet(mb_description_buffer', p).target_length
          /\ (SameSlot(p) /\ DictGet(mb_description_buffer, p).kind = "Head")
             => cur_length(DictGet(mb_description_buffer', p))
                   >= cur_length(DictGet(mb_description_buffer, p))]_vars

\* the i-th observation of a slot with max_output_len = k
ExpectedState(i, k) ==
    IF i = k + 1 THEN DONE ELSE IF i = k THEN COOLDOWN ELSE GENERATE

C3_SlotOccupied ==
    [][(HasCur /\ res'.op = "add_description")
          => (Failed(res') /\ mb_description_buffer' = mb_description_buffer)]_vars

C5_BodyExportFails ==
    (stage # 0 /\ res.op = "export_new_tokens") => Failed(res)

RECURSIVE rows_by_position(_, _)
rows_by_position(d, p) ==
    IF p >= buffer_size THEN <<>>
    ELSE (IF DictHas(d, p) THEN <<DictGet(d, p).new_tokens>> ELSE <<>>)
            \o rows_by_position(d, p + 1)

AllHaveTokens ==
    \A i \in 1..Len(mb_description_buffer) :
        mb_description_buffer[i].desc.new_tokens # <<>>

\* C6: on a Head ring whose slots have all produced tokens, export_new_tokens
\* returns the slots' token rows ordered by ring position, position 0 first
\* (original claim; the code returns them in the order the slots were added)
C6_ExportPositionOrder ==
    (stage = 0 /\ res.op = "export_new_tokens" /\ AllHaveTokens)
       => /\ res.out = "ok"
          /\ res.tokens = rows_by_position(mb_description_buffer, 0)

AllPresentDone ==
    \A p \in DictKeys(mb_description_buffer) :
        state(DictGet(mb_description_buffer, p)) = DONE

\* C7: is_micro_batch_done is false on an empty dict, otherwise true exactly
\* when every description present is DONE; it changes nothing of the ring
C7_RoundComplete ==
    [][res'.op = "is_micro_batch_done"
          => /\ res'.out = "ok"
             /\ res'.done = (Len(mb_description_buffer) # 0 /\ AllPresentDone)
             /\ mb_description_buffer' = mb_description_buffer
             /\ idx' = idx
             /\ cache_manager_list' = cache_manager_list]_vars

C7_Witness ==
    /\ res.op = "is_micro_batch_done"
    /\ res.done
    /\ Len(mb_description_buffer) = 1
    /\ buffer_size = 2

\* C8: clear can be called in every state and succeeds; afterwards the dict
\* is empty and every cache handle got exactly one free_all from that call
C8_ClearReleasesAll ==
    [][/\ ENABLED clear
       /\ res'.op = "clear"
             => /\ res'.out = "ok"
                /\ mb_description_buffer' = <<>>
                /\ \A p \in Positions :
                      Cardinality({i \in 1..Len(res'.freed) : res'.freed[i] = p}) = 1
                /\ \A i \in 1..Len(res'.freed) : res'.freed[i] \in Positions]_vars

C8_Witness ==
    /\ res.op = "clear"
    /\ buffer_size = 2
    /\ Len(res.freed) = 2
    /\ mb_description_buffer = <<>>

\* C9: a Head slot's mask has grown by one element per token while fewer
\* than k tokens were appended, and by k - 1 elements in all from then on
\* (original claim; a token step on a DONE slot grows the mask again)
C9_MaskGrowth ==
    \A i \in HeadEntries :
        LET d == mb_description_buffer[i].desc
            k == d.target_length - d.mb_length
            n == Len(d.new_tokens)
        IN  Len(d.attn_mask) = d.mb_length + (IF n < k THEN n ELSE k - 1)

\* C10: the cursor and every key of the dict are in 0..buffer_size-1 and the
\* dict holds at most buffer_size entries
C10_CursorAndKeysInRange ==
    /\ idx \in 0..(buffer_size - 1)
    /\ DictKeys(mb_description_buffer) \subseteq 0..(buffer_size - 1)
    /\ Cardinality(DictKeys(mb_description_buffer)) = Len(mb_description_buffer)
    /\ Len(mb_description_buffer) <= buffer_size

C10_Witness ==
    /\ buffer_size = 2
    /\ idx = 0
    /\ res.op = "next"
    /\ Len(mb_description_buffer) = 2

\* n consecutive calls of next from cursor i
RECURSIVE next_n(_, _)
next_n(i, n) == IF n = 0 THEN i ELSE next_n(next_idx(i, buffer_size), n - 1)

\* C11: next never fails and changes only the cursor, to (idx + 1) mod
\* buffer_size; from every cursor value buffer_size consecutive calls lead
\* back to it and no smaller positive number of calls does
C11_NextCyclic ==
    /\ [][res'.op = "next"
             => /\ res'.out = "ok"
                /\ idx' = (idx + 1) % buffer_size
                /\ mb_description_buffer' = mb_description_buffer
                /\ cache_manager_list' = cache_manager_list]_vars
    /\ [](\A c \in Positions :
             /\ next_n(c, buffer_size) = c
             /\ \A n \in 1..(buffer_size - 1) : next_n(c, n) # c)

C11_Witness ==
    /\ res.op = "next"
    /\ buffer_size = 2
    /\ idx = 1
    /\ next_n(idx, 1) = 0
    /\ next_n(idx, 2) = 1

\* C12: a failing add_description, step or clear leaves the dict, the cursor
\* and every unreleased cache handle as they were
\* (original claim; clear empties the dict before the first free_all and has
\* freed the handles before the failing one)
C12_AllOrNothing ==
    [][(res'.op \in {"add_description", "step", "clear"} /\ Failed(res'))
          => /\ mb_description_buffer' = mb_description_buffer
             /\ idx' = idx
             /\ \A p \in Positions :
                   cache_manager_list[p] => cache_manager_list'[p]]_vars

\* C13: a position whose slot is DONE keeps that slot, DONE, over every
\* add_description, step and next
\* (original claim; a token step on a DONE slot makes it GENERATE and
\* add_description replaces it)
C13_DoneIsStable ==
    [][\A p \in Positions :
          (/\ DictHas(mb_description_buffer, p)
           /\ state(DictGet(mb_description_buffer, p)) = DONE
           /\ res'.op \in {"add_description", "step", "next"})
          => /\ DictHas(mb_description_buffer', p)
             /\ DictGet(mb_description_buffer', p) = DictGet(mb_description_buffer, p)
             /\ state(DictGet(mb_description_buffer', p)) = DONE]_vars

\* C14: on a Head ring an add_description that fails for a missing key (the
\* only way it fails) stores nothing and has not called init_from_batch
\* (original claim; with attention_mask missing the base __init__ has called
\* init_from_batch before the assert fails)
C14_InvalidInputBeforeFactory ==
    [][(stage = 0 /\ res'.op = "add_description" /\ Failed(res'))
          => /\ mb_description_buffer' = mb_description_buffer
             /\ ~res'.factory]_vars

\* C15: a successful step leaves the descriptions at all other positions,
\* the set and order of populated positions, the cursor and the cache
\* handles unchanged
C15_StepFrame ==
    [][(res'.op = "step" /\ res'.out = "ok")
          => /\ idx' = idx
             /\ cache_manager_list' = cache_manager_list
             /\ Len(mb_description_buffer') = Len(mb_description_buffer)
             /\ \A i \in 1..Len(mb_description_buffer) :
                   /\ mb_description_buffer'[i].key = mb_description_buffer[i].key
                   /\ mb_description_buffer[i].key # idx
                         => mb_description_buffer'[i] = mb_description_buffer[i]]_vars

C15_Witness ==
    /\ res.op = "step"
    /\ res.out = "ok"
    /\ res.with_token
    /\ Len(mb_description_buffer) = 2
    /\ \E i \in 1..2 :
          /\ mb_description_buffer[i].key # idx
          /\ mb_description_buffer[i].desc # cur_description

\* C16: step without a token on a Head slot changes nothing of the slot
\* (tokens, mask, length, state) and returns the slot's unchanged state
C16_TokenlessStepIsNoop ==
    [][(stage = 0 /\ HasCur /\ res'.op = "step" /\ ~res'.with_token)
          => /\ res'.out = "ok"
             /\ mb_description_buffer' = mb_description_buffer
             /\ res'.state = state(cur_description)]_vars

C16_Witness ==
    /\ stage = 0
    /\ res.op = "step"
    /\ res.out = "ok"
    /\ ~res.with_token
    /\ res.state = COOLDOWN
    /\ HasCur
    /\ Len(cur_description.attn_mask) = cur_description.mb_length

\* the state of a slot with target t whose batch context records length m
StateOfLength(m, t) ==
    IF m = t THEN DONE ELSE IF m = t - 1 THEN COOLDOWN ELSE GENERATE

C18_PrefillIffNoSlot ==
    /\ (cur_state = PREFILL) <=> ~HasCur
    /\ \A i \in 1..Len(mb_description_buffer) :
          state(mb_description_buffer[i].desc) # PREFILL
    /\ res.op = "clear"
          => /\ \A p \in Positions : ~DictHas(mb_description_buffer, p)
             /\ cur_state = PREFILL
             /\ ~micro_batch_done(mb_description_buffer)

C18_Witness ==
    /\ HasCur
    /\ cur_description.new_tokens = <<>>
    /\ cur_state = GENERATE
    /\ Len(mb_description_buffer) < buffer_size

\* C19: clear leaves the cursor where it was, and the add_description that
\* follows it populates that position, with that position's cache handle
C19_ClearKeepsCursor ==
    [][/\ res'.op = "clear" => idx' = idx
       /\ (res.op = "clear" /\ res.out = "ok"
             /\ res'.op = "add_description" /\ res'.out = "ok")
          => /\ idx' = idx
             /\ DictKeys(mb_description_buffer') = {idx}
             /\ \A p \in Positions : cache_manager_list'[p] <=> (p = idx)]_vars

C19_Witness ==
    /\ res.op = "clear"
    /\ res.out = "ok"
    /\ idx = 1
    /\ mb_description_buffer = <<>>

\* the number of token steps the ring has taken in this round
RECURSIVE TokenSteps(_)
TokenSteps(i) ==
    IF i > Len(mb_description_buffer) THEN 0
    ELSE Len(mb_description_buffer[i].desc.new_tokens) + TokenSteps(i + 1)

\* C20: under the round-robin driver is_micro_batch_done is false after each
\* of the first B*k - 1 token steps and true after the (B*k)-th, when every
\* position holds a DONE slot; the driver gets there
C20_RoundCompletes ==
    /\ [](res.op = "is_micro_batch_done"
            => /\ res.done <=> (TokenSteps(1) = buffer_size * max_output_len)
               /\ res.done
                     => /\ Len(mb_description_buffer) = buffer_size
                        /\ AllPresentDone)
    /\ [](TokenSteps(1) <= buffer_size * max_output_len)
    /\ <>(res.op = "is_micro_batch_done" /\ res.done)

C20_Witness ==
    /\ res.op = "is_micro_batch_done"
    /\ res.done
    /\ buffer_size = 2
    /\ max_output_len = 2
    /\ TokenSteps(1) = 4

====
